---------------------------- MODULE Spec2Model ----------------------------
(***************************************************************************)
(* A model of E7umf.py, the host side of the UHF-U1-CU-71 RFID reader      *)
(* protocol: the byte/hex codec, the chunked frame transport               *)
(* (send_command, read_response), the six command operations and the      *)
(* connect/disconnect session state.                                       *)
(*                                                                         *)
(* Bytes are the integers 0..255.  A Python bytes/bytearray value is a     *)
(* sequence of bytes; Python's 0-based index i is position i+1 here.       *)
(* The USB device is the environment: every device.write and every         *)
(* device.read of the source is one step whose outcome the environment     *)
(* chooses.                                                                *)
(***************************************************************************)
EXTENDS Integers, Sequences, FiniteSets, TLC

VARIABLES
    usb_device,     \* the module global: 0 is None, otherwise id(usb_device)
    session,        \* history: handle of the last successful connect not yet
                    \* followed by a successful disconnect, 0 when there is none
    closed,         \* history: the handle the last successful disconnect was given,
                    \* 0 when there is none since the last successful connect
    pc,             \* "idle"; where the running call blocks: "send" | "recv";
                    \* "done" when it has returned and the caller holds its results
    call,           \* the running (or last finished) call: its name and arguments
    ret,            \* the value the last finished call returned
    command,        \* the frame send_command is sending (its parameter data)
    bytes_written,  \* send_command's loop variable
    wire,           \* history: the chunks device.write accepted during this call
    sent,           \* history: the frames handed to send_command during this call
    response,       \* read_response's accumulating bytearray
    rx,             \* history: the chunks device.read returned to the current
                    \* read_response, each with the clock test made after it
    result,         \* what the last read_response returned (None, bytes) or Raised
    nreads,         \* history: the read_response invocations of this call
    replies,        \* history: what each read_response of this call returned
    fault,          \* history: the transport exception the device raised in this call
    unread,         \* the device: chunks it has produced that no device.read has
                    \* taken yet, left by a read_response that stopped before them
    count,          \* uhf_inventory's local count
    round,          \* uhf_inventory's loop: 0 while the count is asked, then i+1
    current_offset, \* uhf_inventory's local current_offset
    pData,          \* the caller's data buffer
    tagCount,       \* the caller's 2-byte tag count buffer
    dataLen,        \* the caller's 2-byte data length buffer
    source,         \* codec: the input of the last conversion
    hexed,          \* codec: binaryToHex's result
    decoded         \* codec: asciiToHex's result

vars == <<usb_device, session, closed, pc, call, ret, command, bytes_written, wire, sent,
          response, rx, result, nreads, replies, fault, count, round,
          current_offset, pData, tagCount, dataLen, source, hexed, decoded,
          unread>>

sessionVars == <<usb_device, session, closed>>
callVars == <<pc, call, ret, command, bytes_written, wire, sent, response, rx,
              result, nreads, replies, fault, count, round, current_offset,
              pData, tagCount, dataLen>>
codecVars == <<source, hexed, decoded>>

-----------------------------------------------------------------------------
(* Python values *)

\* Python's None, as a value no byte sequence equals.
None == <<-1>>

\* An exception raised instead of a value (IndexError, ValueError).
Raised == <<-2>>

Min(a, b) == IF a <= b THEN a ELSE b

Max(a, b) == IF a >= b THEN a ELSE b

IsByte(v) == v >= 0 /\ v <= 255

\* s[i] for a 0-based index i that is in range.
At(s, i) == s[i + 1]

\* s[a:b] for 0 <= a, the slice clipped to the sequence as Python clips it.
Slice(s, a, b) == SubSeq(s, a + 1, Min(b, Len(s)))

\* The position a Python index i addresses in a sequence of length n: a
\* negative index counts from the end; -1 when the access raises IndexError.
PyIndex(i, n) ==
    IF i >= 0 /\ i < n THEN i
    ELSE IF i < 0 /\ i >= -n THEN n + i
    ELSE -1

\* bytearray(n)
Zeros(n) == [i \in 1..n |-> 0]

\* s with the 0-based position i set to v.
SetAt(s, i, v) == [s EXCEPT ![i + 1] = v]

-----------------------------------------------------------------------------
(* Byte/Hex codec *)

toHexChar_gt(value) == IF value > 10 THEN value + 55 ELSE value + 48

toHexChar(value) == IF value >= 10 THEN value + 55 ELSE value + 48

\* binaryToHex(source, length): None for length <= 0 or a falsy source;
\* source[i] raises IndexError when length exceeds len(source).
binaryToHex(src, length) ==
    IF length <= 0 \/ src = None \/ src = <<>> THEN None
    ELSE IF length > Len(src) THEN Raised
    ELSE [p \in 1..(2 * length) |->
            IF p % 2 = 1 THEN toHexChar(src[(p + 1) \div 2] \div 16)
            ELSE toHexChar(src[p \div 2] % 16)]

IsHexDigit_upper_only(c) ==
    \/ (48 <= c /\ c <= 57)
    \/ (65 <= c /\ c <= 70)

IsHexDigit(c) ==
    \/ (48 <= c /\ c <= 57)
    \/ (65 <= c /\ c <= 70)
    \/ (97 <= c /\ c <= 102)

\* int(chr(c), 16) for a hex digit character c.
HexValue(c) ==
    IF c <= 57 THEN c - 48
    ELSE IF c <= 70 THEN c - 55
    ELSE c - 87

\* asciiToHex(source, length): None for length <= 0, a falsy source, a source
\* shorter than 2*length, or any consumed character that is no hex digit.
asciiToHex(src, length) ==
    IF length <= 0 \/ src = None \/ src = <<>> THEN None
    ELSE IF Len(src) < length * 2 THEN None
    ELSE IF \E i \in 0..(length - 1) :
                ~IsHexDigit(At(src, 2 * i)) \/ ~IsHexDigit(At(src, 2 * i + 1))
         THEN None
    ELSE [p \in 1..length |->
            HexValue(At(src, 2 * (p - 1))) * 16 + HexValue(At(src, 2 * (p - 1) + 1))]

-----------------------------------------------------------------------------
(* Bounds of the model and constants of the program *)

\* Longest byte sequence handed to the codec.
MaxLen == 3

\* Largest tag count the device reports in the model.
MaxCount == 2

\* Most chunks the device sends for one response.
MaxChunks == 2

\* Distinct object identities id() can return.
NumIds == 2

\* Longest frame handed to send_command on its own.
MaxFrameLen == 130

\* The USB packet size of send_command and read_response.
ChunkSize == 64

\* The first byte of an inbound chunk that is followed by another.
MoreMarker == 63

\* The first byte send_command gives a chunk that is not the last of its frame.
ContinuationMarker == 130

\* The first byte send_command gives the last chunk of a frame of several.
EndMarker == 2

Ids == 1..NumIds

\* A caller's buffer of n bytes, filled with a value no operation writes.
Buffer(n) == [i \in 1..n |-> 238]

-----------------------------------------------------------------------------
(* Command frames *)

\* rlen + 55 if rlen >= 10 else rlen + 48
LengthChar(n) == IF n >= 10 THEN n + 55 ELSE n + 48

\* A bytearray built from values: ValueError unless each is in range(256).
Bytes(s) == IF \A i \in 1..Len(s) : IsByte(s[i]) THEN s ELSE Raised

read_command_one_digit(infoType, address, rlen) ==
    Bytes(<<8, 2, 65, 82, infoType + 48, 44, toHexChar(address % 16), 44,
            LengthChar(rlen)>>)

\* command[:command_length] of uhf_read.
read_command(infoType, address, rlen) ==
    IF address >= 16
    THEN Bytes(<<9, 2, 65, 82, infoType + 48, 44, toHexChar(address \div 16),
                 toHexChar(address % 16), 44, LengthChar(rlen)>>)
    ELSE Bytes(<<8, 2, 65, 82, infoType + 48, 44, toHexChar(address), 44,
                 LengthChar(rlen)>>)

\* command[:command_length] of uhf_write.  The slice assignment of
\* pData[:wlen*4] resizes the 256-byte bytearray when pData is shorter than
\* wlen*4; command[0] = command_length - 1 raises ValueError past 255.
write_command(infoType, address, wlen, data) ==
    LET head == IF address >= 16
                THEN <<0, 2, 65, 87, infoType + 48, 44, toHexChar(address \div 16),
                       toHexChar(address % 16), 44, LengthChar(wlen), 44>>
                ELSE <<0, 2, 65, 87, infoType + 48, 44, toHexChar(address), 44,
                       LengthChar(wlen), 44>>
        command_length == Len(head) + wlen * 4
        built == head \o Slice(data, 0, wlen * 4) \o Zeros(Max(0, 256 - command_length))
    IN  IF Bytes(head) = Raised \/ ~IsByte(command_length - 1) THEN Raised
        ELSE Slice([built EXCEPT ![1] = command_length - 1], 0, command_length)

\* bytearray([4, 2, 145, action, time])
action_command(action, time) == Bytes(<<4, 2, 145, action, time>>)

\* The 12-byte "AP" frame.
password_command(AccessPassword) ==
    <<11, 2, 65, 80>> \o Slice(AccessPassword, 0, 4) \o Slice(AccessPassword, 4, 8)

\* The 11-byte "AL" frame: bytearray(11) with command[4:10] = lockSetting.
lock_command(lockSetting) == <<10, 2, 65, 76>> \o lockSetting \o <<0>>

\* bytearray([3, 2, 85, 0x80])
inventory_command == <<3, 2, 85, 128>>

\* The same frame after command[3] = 145.
inventory_next_command == [inventory_command EXCEPT ![4] = 145]

-----------------------------------------------------------------------------
(* Frame transport *)

send_chunk_swapped(data, written) ==
    LET chunk == Slice(data, written, written + ChunkSize)
    IN  IF Len(data) > ChunkSize /\ written + ChunkSize < Len(data)
        THEN <<EndMarker>> \o Tail(chunk)
        ELSE IF Len(data) > ChunkSize THEN <<ContinuationMarker>> \o Tail(chunk)
        ELSE chunk

\* The chunk one iteration of send_command's loop hands to device.write.
send_chunk(data, written) ==
    LET chunk == Slice(data, written, written + ChunkSize)
    IN  IF Len(data) > ChunkSize /\ written + ChunkSize < Len(data)
        THEN <<ContinuationMarker>> \o Tail(chunk)
        ELSE IF Len(data) > ChunkSize THEN <<EndMarker>> \o Tail(chunk)
        ELSE chunk

read_more_ignoring_length(chunk, late) == chunk[1] = MoreMarker /\ ~late

\* Whether read_response's loop reads another chunk after this one: neither
\* break is taken.  late is the clock test (time.time() - start_time) * 1000 >
\* timeout, which the code evaluates only when the first byte is 63.
read_more(chunk, late) ==
    /\ ~(chunk[1] # MoreMarker \/ late)
    /\ ~(Len(chunk) < ChunkSize)

-----------------------------------------------------------------------------
(* The device: what one device.read can return *)

\* The acknowledgement uhf_action accepts.
ActionAck == <<3, 2, 145, 0>>

\* The acknowledgement uhf_setAccessPassword accepts.
PasswordAck == <<4, 2, 65, 0, 80>>

\* The acknowledgement uhf_lockMemory (and, by its first byte, uhf_write) accepts.
LockAck == <<8, 2, 65, 0, 76, 0, 79, 75, 0>>

\* A reply uhf_read accepts: 'R' at offset 4, payload from offset 5.
ReadReply == <<9, 2, 65, 0, 82, 17, 34, 51, 68, 85>>

\* A reply with 'R' at offset 4 and no payload: one byte short of what
\* uhf_read accepts.
ShortReadReply == <<4, 2, 65, 0, 82>>

\* The reply to the inventory start frame: the tag count at offset 4.
CountReply(n) == <<4, 2, 85, 0, n>>

\* A per-tag reply: 160 at offset 1, k at offset 5 (byte_count = 2k - 8), the
\* read count rc at offset response[0] - 1 = 8.
TagReply(k, rc) == <<9, 160, 85, 0, 1, k, 171, 205, rc, 0>>

TagReplies == {TagReply(k, 1) : k \in {0, 4, 6, 10}} \cup {TagReply(6, 2)}

\* A full chunk announcing another one; as the head of a count reply it
\* reports one tag.
MoreChunk ==
    [i \in 1..ChunkSize |->
        IF i = 1 THEN MoreMarker
        ELSE IF i = 5 THEN 1
        ELSE i]

\* A full chunk that announces nothing.
FullChunk == [i \in 1..ChunkSize |-> IF i = 5 THEN 82 ELSE 100 + i]

\* A short chunk that starts with the marker.
ShortMore == <<MoreMarker, 2, 85>>

DeviceChunks ==
    {<<>>, <<4>>, <<8>>, ActionAck, PasswordAck, LockAck, ReadReply,
     ShortReadReply, MoreChunk, FullChunk, ShortMore}
    \cup {CountReply(n) : n \in 0..MaxCount}
    \cup TagReplies

\* What the device may still deliver after read_response has stopped reading:
\* the answer that comes after the timeout, the chunk that follows one read
\* late.
LateChunks == {ActionAck}

Leftovers == {<<>>} \cup {<<c>> : c \in LateChunks}

\* The outcomes of one device.read: a chunk (late: the clock test made after it,
\* which the code makes only when the chunk starts with the marker), or a
\* USBError, with errno 110 (timeout) or another.  left: what the device
\* delivers after a read_response that this outcome ends on the clock; stale:
\* the chunk was waiting from before the frame just sent.
ReadOutcomes ==
    {[kind |-> "chunk", bytes |-> b, late |-> FALSE, left |-> <<>>, stale |-> FALSE] :
        b \in DeviceChunks}
    \cup {[kind |-> "chunk", bytes |-> b, late |-> TRUE, left |-> l, stale |-> FALSE] :
            b \in {d \in DeviceChunks : d # <<>> /\ d[1] = MoreMarker},
            l \in Leftovers}
    \cup {[kind |-> "timeout", bytes |-> <<>>, late |-> FALSE, left |-> l,
           stale |-> FALSE] : l \in Leftovers}
    \cup {[kind |-> "usb_error", bytes |-> <<>>, late |-> FALSE, left |-> <<>>,
           stale |-> FALSE]}

\* The outcomes of one device.write: accepted, or a USBError.
WriteOutcomes == {"ok", "usb_error"}

-----------------------------------------------------------------------------
(* The command operations after their response: each takes what read_response
   returned (or Raised) and the call's state st, and gives the state after. *)

Return(st, code) == [st EXCEPT !.pc = "done", !.ret = code]

\* send_command(usb_device, frame) as the next thing the call does.
Send(st, frame) ==
    [st EXCEPT !.pc = "send", !.command = frame, !.bytes_written = 0,
               !.sent = Append(st.sent, frame)]

uhf_read_reply_from_five(c, res, st) ==
    IF res = Raised THEN Return(st, -13)
    ELSE IF res # None /\ Len(res) >= 5 /\ At(res, 4) = 82
    THEN LET data_length == Min(c.rlen * 4, Len(st.pData))
         IN  [Return(st, 0) EXCEPT !.pData =
                [i \in 1..Len(st.pData) |->
                    IF i <= data_length
                    THEN IF 5 + (i - 1) < Len(res) THEN At(res, 5 + (i - 1)) ELSE 0
                    ELSE st.pData[i]]]
    ELSE Return(st, -6)

uhf_read_reply(c, res, st) ==
    IF res = Raised THEN Return(st, -13)
    ELSE IF res # None /\ Len(res) >= 6 /\ At(res, 4) = 82
    THEN LET data_length == Min(c.rlen * 4, Len(st.pData))
         IN  [Return(st, 0) EXCEPT !.pData =
                [i \in 1..Len(st.pData) |->
                    IF i <= data_length
                    THEN IF 5 + (i - 1) < Len(res) THEN At(res, 5 + (i - 1)) ELSE 0
                    ELSE st.pData[i]]]
    ELSE Return(st, -6)

uhf_write_reply(c, res, st) ==
    IF res = Raised THEN Return(st, -13)
    ELSE IF res # None /\ Len(res) >= 1 /\ At(res, 0) = 8 THEN Return(st, 0)
    ELSE Return(st, -6)

uhf_action_reply(c, res, st) ==
    IF res = Raised THEN Return(st, -13)
    ELSE IF /\ res # None /\ Len(res) >= 4
            /\ At(res, 0) = 3 /\ At(res, 1) = 2 /\ At(res, 2) = 145 /\ At(res, 3) = 0
    THEN Return(st, 0)
    ELSE Return(st, -6)

uhf_setAccessPassword_reply(c, res, st) ==
    IF res = Raised THEN Return(st, -13)
    ELSE IF /\ res # None /\ Len(res) >= 5
            /\ At(res, 0) = 4 /\ At(res, 1) = 2 /\ At(res, 2) = 65
            /\ At(res, 3) = 0 /\ At(res, 4) = 80
    THEN Return(st, 0)
    ELSE Return(st, -6)

uhf_lockMemory_reply(c, res, st) ==
    IF res = Raised THEN Return(st, -13)
    ELSE IF /\ res # None /\ Len(res) >= 8
            /\ At(res, 0) = 8 /\ At(res, 4) = 76 /\ At(res, 6) = 79 /\ At(res, 7) = 75
    THEN Return(st, 0)
    ELSE Return(st, -6)

\* dataLen[0] = v & 0xFF; dataLen[1] = (v >> 8) & 0xFF: the buffer after the
\* two assignments, the first of which is made even when the second raises
\* IndexError.
write_dataLen(buf, v) ==
    IF Len(buf) >= 2 THEN [buf EXCEPT ![1] = v % 256, ![2] = (v \div 256) % 256]
    ELSE IF Len(buf) = 1 THEN <<v % 256>>
    ELSE buf

\* Whether both assignments are made: otherwise the operation returns -13.
dataLen_written(buf) == Len(buf) >= 2

uhf_inventory_count_reports_early(c, res, st) ==
    IF res = Raised THEN Return(st, -13)
    ELSE IF res # None /\ Len(res) >= 5
    THEN LET cnt == At(res, 4)
             counted == [st EXCEPT !.count = cnt,
                                   !.tagCount = <<cnt % 256, (cnt \div 256) % 256>>,
                                   !.dataLen = write_dataLen(st.dataLen, 0)]
         IN  IF cnt = 0
             THEN Return(counted, IF dataLen_written(st.dataLen) THEN 0 ELSE -13)
             ELSE Send([counted EXCEPT !.round = 1, !.current_offset = 0],
                       inventory_next_command)
    ELSE Return(st, -6)

\* uhf_inventory after the reply to the start frame.
uhf_inventory_count(c, res, st) ==
    IF res = Raised THEN Return(st, -13)
    ELSE IF res # None /\ Len(res) >= 5
    THEN LET cnt == At(res, 4)
             counted == [st EXCEPT !.count = cnt,
                                   !.tagCount = <<cnt % 256, (cnt \div 256) % 256>>]
         IN  IF cnt = 0
             THEN Return([counted EXCEPT !.dataLen = write_dataLen(st.dataLen, 0)],
                         IF dataLen_written(st.dataLen) THEN 0 ELSE -13)
             ELSE Send([counted EXCEPT !.round = 1, !.current_offset = 0],
                       inventory_next_command)
    ELSE Return(st, -6)

\* The per-tag checks that end the call: the code it returns, 0 to go on.
\* response[1] raises IndexError on a one-byte response.
tag_abort_unchecked(res) ==
    IF Len(res) < 2 THEN -13
    ELSE IF At(res, 1) # 160 THEN 160
    ELSE 0

tag_abort_status_first(res) ==
    IF Len(res) < 2 THEN -13
    ELSE IF At(res, 1) # 160 THEN 160
    ELSE IF At(res, 0) = 4 THEN 4
    ELSE 0

tag_abort_raw_status(res) ==
    IF At(res, 0) = 4 THEN 4
    ELSE IF Len(res) < 2 THEN -13
    ELSE IF At(res, 1) # 160 THEN At(res, 1)
    ELSE 0

tag_abort(res) ==
    IF At(res, 0) = 4 THEN 4
    ELSE IF Len(res) < 2 THEN -13
    ELSE IF At(res, 1) # 160 THEN 160
    ELSE 0

next_offset_data_only(off, byte_count) == off + byte_count

\* current_offset += byte_count + 2
next_offset(off, byte_count) == off + byte_count + 2

more_rounds_one_less(i, cnt) == i + 1 < cnt

\* Whether "for i in range(count)" has another iteration after round i.
more_rounds(i, cnt) == i < cnt

\* pData[current_offset + 2 + j] = hex_data[j] for j in range(data_length),
\* from j on; it stops where an index is out of range.
RECURSIVE CopyHex(_, _, _, _, _)
CopyHex(buf, off, hex_data, j, data_length) ==
    IF j >= data_length \/ PyIndex(off + 2 + j, Len(buf)) = -1 THEN buf
    ELSE CopyHex(SetAt(buf, PyIndex(off + 2 + j, Len(buf)), At(hex_data, j)),
                 off, hex_data, j + 1, data_length)

copy_length_unclipped(byte_count, n, off) == byte_count

\* data_length = min(byte_count, len(pData) - current_offset - 2)
copy_length(byte_count, n, off) == Min(byte_count, n - off - 2)

\* One round of uhf_inventory's loop, after the reply to the per-tag frame.
uhf_inventory_tag(c, res, st) ==
    IF res = Raised THEN Return(st, -13)
    ELSE IF res = None THEN Return(st, -6)
    ELSE IF tag_abort(res) # 0 THEN Return(st, tag_abort(res))
    ELSE IF Len(res) < 6 THEN Return(st, -13)
    ELSE IF PyIndex(At(res, 0) - 1, Len(res)) = -1 THEN Return(st, -13)
    ELSE
      LET byte_count == 2 * At(res, 5) - 8
          last_byte == At(res, PyIndex(At(res, 0) - 1, Len(res)))
          off == st.current_offset
          n == Len(st.pData)
          fail1 == off < n /\ (PyIndex(off, n) = -1 \/ ~IsByte(byte_count + 1))
          buf1 == IF off < n /\ ~fail1
                  THEN SetAt(st.pData, PyIndex(off, n), byte_count + 1)
                  ELSE st.pData
          fail2 == off + 1 < n /\ PyIndex(off + 1, n) = -1
          buf2 == IF off + 1 < n /\ ~fail2
                  THEN SetAt(buf1, PyIndex(off + 1, n), last_byte)
                  ELSE buf1
          hex_data == binaryToHex(res, byte_count)
          data_length == copy_length(byte_count, n, off)
          fail3 == /\ hex_data # None /\ hex_data # Raised
                   /\ \E j \in 0..(data_length - 1) : PyIndex(off + 2 + j, n) = -1
          buf3 == IF hex_data # None /\ hex_data # Raised
                  THEN CopyHex(buf2, off, hex_data, 0, data_length)
                  ELSE buf2
          advanced == next_offset(off, byte_count)
          stored == [st EXCEPT !.pData = buf3, !.current_offset = advanced]
      IN  IF fail1 THEN Return(st, -13)
          ELSE IF fail2 THEN Return([st EXCEPT !.pData = buf1], -13)
          ELSE IF hex_data = Raised THEN Return([st EXCEPT !.pData = buf2], -13)
          ELSE IF fail3 THEN Return([st EXCEPT !.pData = buf3], -13)
          ELSE IF more_rounds(st.round, st.count)
          THEN Send([stored EXCEPT !.round = st.round + 1], inventory_next_command)
          ELSE Return([stored EXCEPT !.dataLen = write_dataLen(st.dataLen, advanced)],
                      IF dataLen_written(st.dataLen) THEN 0 ELSE -13)

\* What the running call does with read_response's result.
on_reply(c, res, st) ==
    CASE c.op = "uhf_read" -> uhf_read_reply(c, res, st)
      [] c.op = "uhf_write" -> uhf_write_reply(c, res, st)
      [] c.op = "uhf_action" -> uhf_action_reply(c, res, st)
      [] c.op = "uhf_setAccessPassword" -> uhf_setAccessPassword_reply(c, res, st)
      [] c.op = "uhf_lockMemory" -> uhf_lockMemory_reply(c, res, st)
      [] c.op = "uhf_inventory" /\ st.round = 0 -> uhf_inventory_count(c, res, st)
      [] c.op = "uhf_inventory" /\ st.round > 0 -> uhf_inventory_tag(c, res, st)

on_send_failed_as_exception(c, st) == Return(st, -13)

on_send_failed_reads_anyway(c, st) == [st EXCEPT !.pc = "recv"]

\* What the running call does when send_command returned False: every
\* operation falls through to its "return -6".
on_send_failed(c, st) == Return(st, -6)

-----------------------------------------------------------------------------
(* The calls *)

\* The call's state as the operations above take it.
St ==
    [pc |-> pc, ret |-> ret, command |-> command, bytes_written |-> bytes_written,
     sent |-> sent, count |-> count, round |-> round,
     current_offset |-> current_offset, pData |-> pData, tagCount |-> tagCount,
     dataLen |-> dataLen]

Apply(n) ==
    /\ pc' = n.pc
    /\ ret' = n.ret
    /\ command' = n.command
    /\ bytes_written' = n.bytes_written
    /\ sent' = n.sent
    /\ count' = n.count
    /\ round' = n.round
    /\ current_offset' = n.current_offset
    /\ pData' = n.pData
    /\ tagCount' = n.tagCount
    /\ dataLen' = n.dataLen

\* A call starts with nothing sent and nothing read.
Fresh ==
    /\ bytes_written' = 0
    /\ wire' = <<>>
    /\ response' = <<>>
    /\ rx' = <<>>
    /\ result' = None
    /\ nreads' = 0
    /\ replies' = <<>>
    /\ fault' = "none"
    /\ count' = 0
    /\ round' = 0
    /\ current_offset' = 0

\* The call returns code before any transport I/O.
Immediately(code) ==
    /\ pc' = "done"
    /\ ret' = code
    /\ command' = <<>>
    /\ sent' = <<>>

\* The call builds frame and enters send_command with it.
Begin(frame) ==
    /\ pc' = "send"
    /\ ret' = 0
    /\ command' = frame
    /\ sent' = <<frame>>

command_session_lost_on_error ==
    /\ session' = session
    /\ closed' = closed
    /\ usb_device' = IF pc' = "done" /\ ret' \notin {0, 32} THEN 0 ELSE usb_device

\* The command operations declare "global usb_device" and only read it.
command_session ==
    /\ usb_device' = usb_device
    /\ session' = session
    /\ closed' = closed

\* usb_device is None or id(usb_device) != icdev
bad_handle(dev, icdev) == dev = 0 \/ dev # icdev

\* infoType in [1, 2, 3, 4]
valid_infoType(infoType) == infoType \in {1, 2, 3, 4}

\* not (action not in [1, 2, 4, 8] and not (0 < action <= 15))
valid_action(action) == action \in {1, 2, 4, 8} \/ (0 < action /\ action <= 15)

\* The inputs the calls are given.
InfoTypes == {0, 1, 4, 5}
Addresses == {15, 16}
ReadLengths == {1, 2}
ReadCapacities == {0, 3, 8}
WriteLengths == {1, 14, 32, 62}
WriteCapacities == {2, 60}
Actions == {0, 1, 5, 15, 16}
Times == {50, 256}
PasswordLengths == {7, 8, 9}
LockLengths == {5, 6, 7}
InventoryCapacities == {0, 1, 7, 16}
DataLenCapacities == {1, 2}

\* The pData and dataLen capacities an inventory is given: every pData
\* capacity with a dataLen of 2 bytes, and a dataLen of 1 byte.
InventoryBuffers ==
    {<<c, 2>> : c \in InventoryCapacities}
    \cup {<<16, d>> : d \in DataLenCapacities}
Ports == {0, 100}

\* The caller's payload of n bytes.
Payload(n) == [i \in 1..n |-> 48 + (i % 10)]

uhf_read(icdev, infoType, address, rlen, capacity) ==
    /\ pc = "idle"
    /\ call' = [op |-> "uhf_read", icdev |-> icdev, infoType |-> infoType,
                address |-> address, rlen |-> rlen]
    /\ pData' = Buffer(capacity)
    /\ tagCount' = <<>>
    /\ dataLen' = <<>>
    /\ Fresh
    /\ IF bad_handle(usb_device, icdev) THEN Immediately(32)
       ELSE IF ~valid_infoType(infoType) THEN Immediately(-2)
       ELSE IF read_command(infoType, address, rlen) = Raised THEN Immediately(-13)
       ELSE Begin(read_command(infoType, address, rlen))
    /\ command_session
    /\ UNCHANGED <<codecVars, unread>>

uhf_write(icdev, infoType, address, wlen, capacity) ==
    /\ pc = "idle"
    /\ call' = [op |-> "uhf_write", icdev |-> icdev, infoType |-> infoType,
                address |-> address, wlen |-> wlen]
    /\ pData' = Payload(capacity)
    /\ tagCount' = <<>>
    /\ dataLen' = <<>>
    /\ Fresh
    /\ IF bad_handle(usb_device, icdev) THEN Immediately(32)
       ELSE IF ~valid_infoType(infoType) THEN Immediately(-2)
       ELSE IF write_command(infoType, address, wlen, Payload(capacity)) = Raised
       THEN Immediately(-13)
       ELSE Begin(write_command(infoType, address, wlen, Payload(capacity)))
    /\ command_session
    /\ UNCHANGED <<codecVars, unread>>

uhf_action(icdev, action, time) ==
    /\ pc = "idle"
    /\ call' = [op |-> "uhf_action", icdev |-> icdev, action |-> action, time |-> time]
    /\ pData' = <<>>
    /\ tagCount' = <<>>
    /\ dataLen' = <<>>
    /\ Fresh
    /\ IF bad_handle(usb_device, icdev) THEN Immediately(32)
       ELSE IF ~valid_action(action) THEN Immediately(-2)
       ELSE IF action_command(action, time) = Raised THEN Immediately(-13)
       ELSE Begin(action_command(action, time))
    /\ command_session
    /\ UNCHANGED <<codecVars, unread>>

valid_password_atleast8(AccessPassword) == Len(AccessPassword) >= 8

\* isinstance(AccessPassword, (bytes, bytearray)) and len(AccessPassword) == 8
valid_password(AccessPassword) == Len(AccessPassword) = 8

\* isinstance(lockSetting, (bytes, bytearray)) and len(lockSetting) == 6
valid_lockSetting(lockSetting) == Len(lockSetting) = 6

uhf_setAccessPassword(icdev, AccessPassword) ==
    /\ pc = "idle"
    /\ call' = [op |-> "uhf_setAccessPassword", icdev |-> icdev,
                AccessPassword |-> AccessPassword]
    /\ pData' = <<>>
    /\ tagCount' = <<>>
    /\ dataLen' = <<>>
    /\ Fresh
    /\ IF bad_handle(usb_device, icdev) THEN Immediately(32)
       ELSE IF ~valid_password(AccessPassword) THEN Immediately(-2)
       ELSE Begin(password_command(AccessPassword))
    /\ command_session
    /\ UNCHANGED <<codecVars, unread>>

uhf_lockMemory(icdev, lockSetting) ==
    /\ pc = "idle"
    /\ call' = [op |-> "uhf_lockMemory", icdev |-> icdev, lockSetting |-> lockSetting]
    /\ pData' = <<>>
    /\ tagCount' = <<>>
    /\ dataLen' = <<>>
    /\ Fresh
    /\ IF bad_handle(usb_device, icdev) THEN Immediately(32)
       ELSE IF ~valid_lockSetting(lockSetting) THEN Immediately(-2)
       ELSE Begin(lock_command(lockSetting))
    /\ command_session
    /\ UNCHANGED <<codecVars, unread>>

uhf_inventory(icdev, capacity, lenCapacity) ==
    /\ pc = "idle"
    /\ call' = [op |-> "uhf_inventory", icdev |-> icdev, capacity |-> capacity]
    /\ pData' = Buffer(capacity)
    /\ tagCount' = Buffer(2)
    /\ dataLen' = Buffer(lenCapacity)
    /\ Fresh
    /\ IF bad_handle(usb_device, icdev) THEN Immediately(32)
       ELSE Begin(inventory_command)
    /\ command_session
    /\ UNCHANGED <<codecVars, unread>>

-----------------------------------------------------------------------------
(* The session *)

ConnectOutcomes ==
    {"find_error", "not_found", "detach_error", "config_error", "claim_error", "ok"}

\* uhf_connect(port, baud).  usb.core.find gives a new device object, whose
\* id differs from that of the object usb_device still holds; the global is
\* assigned before the driver, configuration and interface steps.
uhf_connect(port, outcome, newid) ==
    /\ pc = "idle"
    /\ newid # usb_device
    /\ call' = [op |-> "uhf_connect", port |-> port, outcome |-> outcome]
    /\ pData' = <<>>
    /\ tagCount' = <<>>
    /\ dataLen' = <<>>
    /\ Fresh
    /\ command' = <<>>
    /\ sent' = <<>>
    /\ pc' = "done"
    /\ IF port # 100 \/ outcome = "find_error"
       THEN ret' = -1 /\ UNCHANGED <<usb_device, session, closed>>
       ELSE IF outcome = "not_found"
       THEN ret' = -32 /\ usb_device' = 0 /\ UNCHANGED <<session, closed>>
       ELSE IF outcome # "ok"
       THEN ret' = -1 /\ usb_device' = newid /\ UNCHANGED <<session, closed>>
       ELSE ret' = newid /\ usb_device' = newid /\ session' = newid /\ closed' = 0
    /\ UNCHANGED <<codecVars, unread>>

\* uhf_disconnect(icdev); released: usb.util.release_interface and
\* dispose_resources raised no USBError.
uhf_disconnect(icdev, released) ==
    /\ pc = "idle"
    /\ call' = [op |-> "uhf_disconnect", icdev |-> icdev, released |-> released]
    /\ pData' = <<>>
    /\ tagCount' = <<>>
    /\ dataLen' = <<>>
    /\ Fresh
    /\ command' = <<>>
    /\ sent' = <<>>
    /\ pc' = "done"
    /\ IF bad_handle(usb_device, icdev)
       THEN ret' = 32 /\ UNCHANGED <<usb_device, session, closed>>
       ELSE IF released
       THEN ret' = 0 /\ usb_device' = 0
            /\ session' = (IF session = icdev THEN 0 ELSE session)
            /\ closed' = icdev
       ELSE ret' = -13 /\ UNCHANGED <<usb_device, session, closed>>
    /\ UNCHANGED <<codecVars, unread>>

-----------------------------------------------------------------------------
(* The transport steps *)

\* One iteration of send_command's loop: one device.write.
device_write(o) ==
    /\ pc = "send"
    /\ UNCHANGED <<call, result, replies, count, round, current_offset,
                   pData, tagCount, dataLen, command, sent>>
    /\ IF o = "ok"
       THEN /\ wire' = Append(wire, send_chunk(command, bytes_written))
            /\ bytes_written' = bytes_written + ChunkSize
            /\ fault' = fault
            /\ IF bytes_written + ChunkSize < Len(command)
               THEN pc' = "send" /\ ret' = ret /\ UNCHANGED <<nreads, response, rx>>
               ELSE IF call.op = "send_command"
               THEN pc' = "done" /\ ret' = 1 /\ UNCHANGED <<nreads, response, rx>>
               ELSE /\ pc' = "recv"
                    /\ ret' = ret
                    /\ nreads' = nreads + 1
                    /\ response' = <<>>
                    /\ rx' = <<>>
       ELSE /\ wire' = wire
            /\ bytes_written' = bytes_written
            /\ fault' = "write_usb_error"
            /\ pc' = IF call.op = "send_command" THEN "done"
                     ELSE on_send_failed(call, St).pc
            /\ ret' = IF call.op = "send_command" THEN 0
                      ELSE on_send_failed(call, St).ret
            /\ UNCHANGED <<nreads, response, rx>>
    /\ command_session
    /\ UNCHANGED <<codecVars, unread>>


\* What read_response returns for the bytes it accumulated.
read_result(resp) == IF Len(resp) = 0 THEN None ELSE resp

\* One iteration of read_response's loop: one device.read.  The device sends
\* at most MaxChunks chunks for a response and reports at most MaxCount tags.
\* A chunk that is waiting unread is the one device.read returns.
device_read(o) ==
    /\ pc = "recv"
    /\ unread # <<>> =>
          o = [kind |-> "chunk", bytes |-> Head(unread), late |-> FALSE,
               left |-> <<>>, stale |-> FALSE]
    /\ unread' = IF unread # <<>> THEN Tail(unread) ELSE o.left
    /\ (o.kind = "chunk" /\ o.bytes # <<>> /\ read_more(o.bytes, o.late))
          => Len(rx) + 1 < MaxChunks
    /\ (o.kind = "chunk" /\ call.op = "uhf_inventory" /\ round = 0
            /\ Len(response \o o.bytes) >= 5)
          => At(response \o o.bytes, 4) <= MaxCount
    /\ UNCHANGED <<call, wire, nreads>>
    /\ IF o.kind # "chunk"
       THEN \* device.read raised USBError: read_response returns None
            /\ fault' = "read_" \o o.kind
            /\ UNCHANGED <<response, rx>>
            /\ result' = None
            /\ replies' = Append(replies, None)
            /\ Apply(on_reply(call, None, St))
       ELSE IF o.bytes = <<>>
       THEN \* chunk_bytes[0] raises IndexError, which read_response lets through
            /\ fault' = fault
            /\ response' = response
            /\ rx' = Append(rx, [o EXCEPT !.stale = unread # <<>>])
            /\ result' = Raised
            /\ replies' = Append(replies, Raised)
            /\ Apply(on_reply(call, Raised, St))
       ELSE /\ fault' = fault
            /\ response' = response \o o.bytes
            /\ rx' = Append(rx, [o EXCEPT !.stale = unread # <<>>])
            /\ IF read_more(o.bytes, o.late)
               THEN UNCHANGED <<result, replies, pc, ret, command, bytes_written,
                                sent, count, round, current_offset, pData, tagCount,
                                dataLen>>
               ELSE /\ result' = read_result(response \o o.bytes)
                    /\ replies' = Append(replies, read_result(response \o o.bytes))
                    /\ Apply(on_reply(call, read_result(response \o o.bytes), St))
    /\ command_session
    /\ UNCHANGED codecVars

\* The caller is done with the results of the call that returned; the
\* call's locals and buffers are gone, the module global stays.
next_call ==
    /\ pc = "done"
    /\ pc' = "idle"
    /\ call' = [op |-> "none"]
    /\ ret' = 0
    /\ command' = <<>>
    /\ sent' = <<>>
    /\ pData' = <<>>
    /\ tagCount' = <<>>
    /\ dataLen' = <<>>
    /\ Fresh
    /\ source' = <<>>
    /\ hexed' = None
    /\ decoded' = None
    /\ UNCHANGED <<sessionVars, unread>>

-----------------------------------------------------------------------------
(* The specifications *)

Idle ==
    /\ pc = "idle"
    /\ call = [op |-> "none"]
    /\ ret = 0
    /\ command = <<>>
    /\ bytes_written = 0
    /\ wire = <<>>
    /\ sent = <<>>
    /\ response = <<>>
    /\ rx = <<>>
    /\ result = None
    /\ nreads = 0
    /\ replies = <<>>
    /\ fault = "none"
    /\ count = 0
    /\ round = 0
    /\ current_offset = 0
    /\ pData = <<>>
    /\ tagCount = <<>>
    /\ dataLen = <<>>

NoCodec ==
    /\ source = <<>>
    /\ hexed = None
    /\ decoded = None

\* The state after import: no device, nothing called.
Init ==
    /\ usb_device = 0
    /\ session = 0
    /\ closed = 0
    /\ unread = <<>>
    /\ Idle
    /\ NoCodec

Connect == \E port \in Ports, outcome \in ConnectOutcomes, newid \in Ids :
              uhf_connect(port, outcome, newid)

Disconnect == \E icdev \in Ids, released \in BOOLEAN : uhf_disconnect(icdev, released)

Read == \E icdev \in Ids, infoType \in InfoTypes, address \in Addresses,
           rlen \in ReadLengths, capacity \in ReadCapacities :
           uhf_read(icdev, infoType, address, rlen, capacity)

Write == \E icdev \in Ids, infoType \in InfoTypes, address \in Addresses,
            wlen \in WriteLengths, capacity \in WriteCapacities :
            uhf_write(icdev, infoType, address, wlen, capacity)

Action == \E icdev \in Ids, action \in Actions, time \in Times :
             uhf_action(icdev, action, time)

SetAccessPassword == \E icdev \in Ids, n \in PasswordLengths :
                        uhf_setAccessPassword(icdev, Payload(n))

LockMemory == \E icdev \in Ids, n \in LockLengths : uhf_lockMemory(icdev, Payload(n))

Inventory == \E icdev \in Ids, buffers \in InventoryBuffers :
                uhf_inventory(icdev, buffers[1], buffers[2])

DeviceWrite == \E o \in WriteOutcomes : device_write(o)

DeviceRead == \E o \in ReadOutcomes : device_read(o)

Next ==
    \/ Connect
    \/ Disconnect
    \/ Read
    \/ Write
    \/ Action
    \/ SetAccessPassword
    \/ LockMemory
    \/ Inventory
    \/ DeviceWrite
    \/ DeviceRead
    \/ next_call

Spec == Init /\ [][Next]_vars

-----------------------------------------------------------------------------
(* send_command on its own: a frame of every length up to MaxFrameLen *)

\* A frame of n bytes, none of them a chunk marker.
Frame(n) == [i \in 1..n |-> 3 + ((i * 7) % 100)]

InitSend ==
    /\ usb_device = 1
    /\ session = 1
    /\ closed = 0
    /\ unread = <<>>
    /\ pc = "send"
    /\ call = [op |-> "send_command"]
    /\ ret = 0
    /\ command \in {Frame(n) : n \in 1..MaxFrameLen}
    /\ bytes_written = 0
    /\ wire = <<>>
    /\ sent = <<command>>
    /\ response = <<>>
    /\ rx = <<>>
    /\ result = None
    /\ nreads = 0
    /\ replies = <<>>
    /\ fault = "none"
    /\ count = 0
    /\ round = 0
    /\ current_offset = 0
    /\ pData = <<>>
    /\ tagCount = <<>>
    /\ dataLen = <<>>
    /\ NoCodec

NextSend == DeviceWrite

SpecSend == InitSend /\ [][NextSend]_vars

-----------------------------------------------------------------------------
(* The codec on its own: every byte sequence up to MaxLen over ByteSamples *)

ByteSamples == {0, 9, 10, 26, 171, 255}

ByteSeqs == UNION {[1..n -> ByteSamples] : n \in 0..MaxLen}

\* binaryToHex(b, len(b)), then asciiToHex of what it gave, for len(b) bytes.
Convert(b) ==
    /\ pc = "idle"
    /\ pc' = "done"
    /\ call' = [op |-> "binaryToHex"]
    /\ source' = b
    /\ hexed' = binaryToHex(b, Len(b))
    /\ decoded' = asciiToHex(binaryToHex(b, Len(b)), Len(b))
    /\ UNCHANGED <<sessionVars, ret, command, bytes_written, wire, sent, response,
                   rx, result, nreads, replies, fault, count, round, current_offset,
                   pData, tagCount, dataLen, unread>>

Encode == pc = "idle" /\ \E b \in ByteSeqs : Convert(b)

\* Characters at and around the edges of the three hex digit ranges.
CharSamples == {47, 48, 57, 58, 64, 65, 70, 71, 96, 97, 102, 103}

\* The strings of n such characters.
CharSeqs(n) == [1..n -> CharSamples]

\* asciiToHex(s, length) on a string of its own.
Parse(s, length) ==
    /\ pc = "idle"
    /\ pc' = "done"
    /\ call' = [op |-> "asciiToHex", length |-> length]
    /\ source' = s
    /\ hexed' = None
    /\ decoded' = asciiToHex(s, length)
    /\ UNCHANGED <<sessionVars, ret, command, bytes_written, wire, sent, response,
                   rx, result, nreads, replies, fault, count, round, current_offset,
                   pData, tagCount, dataLen, unread>>

Decode == pc = "idle" /\ \E n \in 0..MaxLen, length \in 0..(MaxLen - 1) :
                            \E s \in CharSeqs(n) : Parse(s, length)

NextCodec ==
    \/ Encode
    \/ Decode
    \/ next_call

SpecCodec == Init /\ [][NextCodec]_vars

-----------------------------------------------------------------------------
(* Vocabulary of the claims *)

CommandOps ==
    {"uhf_read", "uhf_write", "uhf_action", "uhf_setAccessPassword",
     "uhf_lockMemory", "uhf_inventory"}

\* A command operation has returned.
Returned(op) == pc = "done" /\ call.op = op

\* read_response returned these bytes (neither None nor an exception).
IsFrame(r) == r # None /\ r # Raised

\* The concatenation of the chunks of a read log.
RECURSIVE Concat(_)
Concat(log) == IF log = <<>> THEN <<>> ELSE log[1].bytes \o Concat(Tail(log))

\* The two-byte little-endian number in a buffer.
LittleEndian(b) == b[1] + 256 * b[2]

\* The i-th per-tag reply of the running inventory (i from 1).
TagOf(i) == replies[i + 1]

\* byte_count of the i-th per-tag reply: 2 * response[5] - 8.
ByteCountOf(i) == 2 * At(TagOf(i), 5) - 8

\* The read count of the i-th per-tag reply: response[response[0] - 1].
LastByteOf(i) == At(TagOf(i), PyIndex(At(TagOf(i), 0) - 1, Len(TagOf(i))))

\* Where record i starts: the sum over j < i of (byte_count_j + 2).
RECURSIVE OffsetOf(_)
OffsetOf(i) == IF i <= 1 THEN 0 ELSE OffsetOf(i - 1) + ByteCountOf(i - 1) + 2

-----------------------------------------------------------------------------
(* The claims *)

\* C1: in every per-tag round of uhf_inventory, a reply whose first byte is 4
\* ends the call at once with return code 4: the step that takes the reply
\* returns 4, sends no further frame, reports no data length, and leaves the
\* records earlier rounds wrote to pData as they are.
C1_FaultAborts ==
    [][(/\ pc = "recv" /\ call.op = "uhf_inventory" /\ round >= 1
        /\ pc' # "recv" /\ IsFrame(result') /\ At(result', 0) = 4)
       => (/\ pc' = "done" /\ ret' = 4
           /\ sent' = sent /\ wire' = wire
           /\ pData' = pData /\ dataLen' = dataLen)]_vars

\* C1 happens: the second per-tag reply starts with 4 and the call has returned
\* 4 with the first round's record still in the buffer.
C1_Witness ==
    /\ Returned("uhf_inventory") /\ ret = 4 /\ round = 2
    /\ IsFrame(result) /\ At(result, 0) = 4
    /\ Len(pData) = 16 /\ At(pData, 0) = 5 /\ At(pData, 1) = 1
    /\ Len(sent) = 3


\* C2 as stated: in an inventory that returns 0, record i starts at the sum
\* over j < i of (byte_count_j + 2), its first byte there is byte_count_i + 1
\* and its second byte is response[response[0] - 1], and the reported
\* little-endian dataLen is the sum over all i of (byte_count_i + 2).
C2_AsStated ==
    (Returned("uhf_inventory") /\ ret = 0) =>
        /\ \A i \in 1..count :
              /\ OffsetOf(i) >= 0
              /\ OffsetOf(i) + 1 < Len(pData)
              /\ At(pData, OffsetOf(i)) = ByteCountOf(i) + 1
              /\ At(pData, OffsetOf(i) + 1) = LastByteOf(i)
        /\ LittleEndian(dataLen) = OffsetOf(count + 1)

\* C2, amended: in an inventory that returns 0 and whose per-tag replies all
\* have response[5] >= 4 (no negative byte_count), record i starts at the sum
\* over j < i of (byte_count_j + 2); its first byte is byte_count_i + 1 if that
\* offset lies inside pData and its second byte is response[response[0] - 1]
\* if the next offset does; dataLen is the low 16 bits of the sum over all i of
\* (byte_count_i + 2), whatever was truncated.
C2_Records ==
    (/\ Returned("uhf_inventory") /\ ret = 0
     /\ \A i \in 1..count : At(TagOf(i), 5) >= 4) =>
        /\ \A i \in 1..count :
              /\ OffsetOf(i) < Len(pData)
                    => At(pData, OffsetOf(i)) = ByteCountOf(i) + 1
              /\ OffsetOf(i) + 1 < Len(pData)
                    => At(pData, OffsetOf(i) + 1) = LastByteOf(i)
        /\ LittleEndian(dataLen) = OffsetOf(count + 1) % 65536

\* C2 happens: count 2, response[5] = 6 for both tags and read counts 1 and 2
\* give two records at offsets 0 and 6 and a total length of 12.
C2_Witness ==
    /\ Returned("uhf_inventory") /\ ret = 0 /\ count = 2
    /\ TagOf(1) = TagReply(6, 1) /\ TagOf(2) = TagReply(6, 2)
    /\ Len(pData) = 16
    /\ At(pData, 0) = 5 /\ At(pData, 1) = 1
    /\ At(pData, 6) = 5 /\ At(pData, 7) = 2
    /\ dataLen = <<12, 0>>
    /\ tagCount = <<2, 0>>


\* C3: an inventory that returns 0 made exactly 1 + count round trips, count
\* being the byte at offset 4 of the first reply: one with the frame
\* [3, 2, 85, 0x80], then one per tag with the frame [3, 2, 85, 145], each
\* frame one write and each followed by one read_response; with count 0 it
\* made exactly one and left no data.
C3_RoundTrips ==
    (Returned("uhf_inventory") /\ ret = 0) =>
        /\ count = At(replies[1], 4)
        /\ Len(sent) = 1 + count
        /\ Len(wire) = 1 + count
        /\ nreads = 1 + count
        /\ Len(replies) = 1 + count
        /\ sent[1] = <<3, 2, 85, 128>>
        /\ \A i \in 2..Len(sent) : sent[i] = <<3, 2, 85, 145>>
        /\ wire = sent
        /\ count = 0 => (dataLen = <<0, 0>> /\ pData = Buffer(Len(pData)))

\* C3 happens: a successful inventory of two tags, and so three round trips.
C3_Witness ==
    /\ Returned("uhf_inventory") /\ ret = 0 /\ count = 2
    /\ Len(sent) = 3 /\ nreads = 3

\* C4: when send_command has sent a frame of length L >= 1 (every write
\* accepted): for L > 64 it wrote ceil(L / 64) chunks, in the frame's order,
\* all but the last starting with 0x82 and the last with 0x02, the other bytes
\* the frame's; for L <= 64 it wrote one chunk, the frame itself.
C4_Chunks ==
    (Returned("send_command") /\ ret = 1) =>
        LET L == Len(command)
            n == (L + 63) \div 64
        IN  IF L > 64
            THEN /\ Len(wire) = n
                 /\ \A i \in 1..n :
                       /\ Len(wire[i]) = (IF i < n THEN 64 ELSE L - 64 * (n - 1))
                       /\ wire[i][1] = (IF i < n THEN 130 ELSE 2)
                       /\ \A j \in 2..Len(wire[i]) :
                             wire[i][j] = command[64 * (i - 1) + j]
            ELSE wire = <<command>>

\* C4 happens: a frame of three chunks has been sent, and a frame of one.
C4_Witness ==
    /\ Returned("send_command") /\ ret = 1
    /\ Len(command) = 129 /\ Len(wire) = 3
    /\ wire[1][1] = 130 /\ wire[2][1] = 130 /\ wire[3] = <<2>>

\* C5: read_response reads no chunk after one that does not start with 0x3F,
\* after one shorter than 64 bytes, or after the clock test found the timeout
\* elapsed: every chunk it read before the last is a full chunk that starts
\* with 0x3F and was read in time; its buffer is the chunks read, in read
\* order, and so is the frame it returns.
C5_ReadStops ==
    /\ \A i \in 1..(Len(rx) - 1) :
          /\ Len(rx[i].bytes) = 64
          /\ rx[i].bytes[1] = 63
          /\ ~rx[i].late
    /\ response = Concat(rx)
    /\ (pc \in {"send", "done"} /\ nreads > 0 /\ IsFrame(result))
          => (result = Concat(rx) /\ replies[Len(replies)] = result)

\* C5 happens: a response of two chunks has been returned, the second one
\* ending it.
C5_Witness ==
    /\ pc = "done" /\ call.op \in CommandOps
    /\ Len(rx) = 2 /\ rx[2].bytes = ShortMore
    /\ result = MoreChunk \o ShortMore


\* The last read_response of the call received no byte at all: its one
\* device.read gave a zero-length chunk, or timed out.
ZeroBytesReceived ==
    /\ nreads > 0
    /\ response = <<>>
    /\ \/ fault = "read_timeout"
       \/ (Len(rx) = 1 /\ rx[1].bytes = <<>>)

\* C6: when read_response receives zero bytes (a zero-length chunk, or a
\* timeout before any byte), it returns None and the command operation that
\* called it returns -6.
C6_NoResponse ==
    (pc = "done" /\ call.op \in CommandOps /\ ZeroBytesReceived) =>
        (result = None /\ ret = -6)

\* C7 as stated: a command operation in which device.write or device.read
\* raised a USBError (other than the read timeout) returns -13.
C7_AsStated ==
    (pc = "done" /\ call.op \in CommandOps
        /\ fault \in {"write_usb_error", "read_usb_error"}) => ret = -13

\* C7, amended: a command operation in which device.write or device.read
\* raised a USBError returns -6, in the first round trip and in every per-tag
\* round of the inventory: send_command catches it and returns False,
\* read_response catches it and returns None.
C7_TransportError ==
    (pc = "done" /\ call.op \in CommandOps
        /\ fault \in {"write_usb_error", "read_usb_error"}) =>
        /\ ret = -6
        /\ fault = "read_usb_error" => result = None

\* C7 happens: a USBError on the write of a per-tag frame, and one on the read
\* of a reply.
C7_Witness ==
    /\ pc = "done" /\ ret = -6
    /\ \/ (call.op = "uhf_inventory" /\ round = 1 /\ fault = "write_usb_error")
       \/ (call.op = "uhf_read" /\ fault = "read_usb_error")

\* The call's output buffers are as the caller passed them.
BuffersUntouched ==
    /\ call.op \in {"uhf_read", "uhf_inventory"} => pData = Buffer(Len(pData))
    /\ call.op = "uhf_inventory" =>
          (tagCount = Buffer(2) /\ dataLen = Buffer(Len(dataLen)))

\* No device.write and no device.read was made in this call.
NoTransportIO ==
    /\ wire = <<>>
    /\ sent = <<>>
    /\ nreads = 0
    /\ rx = <<>>
    /\ fault = "none"

\* C8: a command operation called while no session is active (no successful
\* connect yet, or a successful disconnect after the last one) or with a
\* handle that is not the active session's returns 32, with no transport I/O
\* and its output buffers untouched.
C8_NoSession ==
    (pc = "done" /\ call.op \in CommandOps
        /\ (session = 0 \/ call.icdev # session)) =>
        (ret = 32 /\ NoTransportIO /\ BuffersUntouched)

\* The parameter check of the call fails.
InvalidParameter ==
    \/ call.op = "uhf_setAccessPassword" /\ Len(call.AccessPassword) # 8
    \/ call.op = "uhf_lockMemory" /\ Len(call.lockSetting) # 6
    \/ call.op \in {"uhf_read", "uhf_write"} /\ call.infoType \notin {1, 2, 3, 4}
    \/ call.op = "uhf_action" /\ call.action \notin 1..15

\* C9: with the handle of the current device, a command operation whose
\* parameter check fails (a password not of 8 bytes, a lock setting not of 6,
\* an infoType outside 1..4, an action outside 1..15) returns -2 and neither
\* writes a chunk to the device nor reads one.
C9_Validation ==
    (pc = "done" /\ call.op \in CommandOps /\ InvalidParameter
        /\ usb_device # 0 /\ call.icdev = usb_device) =>
        (ret = -2 /\ NoTransportIO)

\* C9 happens: uhf_setAccessPassword was called with 7 bytes and the handle of
\* the current device.
C9_Witness ==
    /\ Returned("uhf_setAccessPassword") /\ Len(call.AccessPassword) = 7
    /\ usb_device # 0 /\ call.icdev = usb_device /\ session = usb_device
    /\ ret = -2

\* C10 as stated: for every byte sequence b, asciiToHex(binaryToHex(b, len(b)),
\* len(b)) = b and binaryToHex(b, len(b)) has 2 * len(b) bytes.
C10_AsStated ==
    Returned("binaryToHex") =>
        /\ hexed # None
        /\ Len(hexed) = 2 * Len(source)
        /\ decoded = source

\* C10, amended: for every byte sequence b that is not empty,
\* asciiToHex(binaryToHex(b, len(b)), len(b)) = b and binaryToHex(b, len(b))
\* has 2 * len(b) bytes; for the empty one both give None.
C10_RoundTrip ==
    Returned("binaryToHex") =>
        IF source = <<>>
        THEN hexed = None /\ decoded = None
        ELSE /\ hexed # None
             /\ Len(hexed) = 2 * Len(source)
             /\ decoded = source

\* C10 happens: a sequence with a digit below and above ten in each half has
\* made the round trip.
C10_Witness ==
    /\ Returned("binaryToHex")
    /\ source = <<171, 9>>
    /\ hexed = <<65, 66, 48, 57>>
    /\ decoded = source


\* The hex digit characters and the value of each.
HexDigits == (48..57) \cup (65..70) \cup (97..102)

\* "0123456789ABCDEF" and "0123456789abcdef"
UpperDigits == <<48, 49, 50, 51, 52, 53, 54, 55, 56, 57, 65, 66, 67, 68, 69, 70>>

LowerDigits == <<48, 49, 50, 51, 52, 53, 54, 55, 56, 57, 97, 98, 99, 100, 101, 102>>

DigitValue(c) == CHOOSE v \in 0..15 : UpperDigits[v + 1] = c \/ LowerDigits[v + 1] = c

\* C11 as stated: asciiToHex returns None for every input that contains a
\* character other than 0-9, A-F, a-f, or that is shorter than twice the
\* expected byte length.
C11_AsStated ==
    (Returned("asciiToHex")
        /\ \/ \E i \in 1..Len(source) : source[i] \notin HexDigits
           \/ Len(source) < 2 * call.length) =>
        decoded = None

\* C11, amended: asciiToHex returns None exactly when the expected byte length
\* is not positive, the input is empty or shorter than twice that length, or
\* one of its first 2 * length characters is no hex digit (characters after
\* them are not looked at); otherwise it returns exactly length bytes, each the
\* value of its pair of digits, never a partly filled buffer.
C11_Rejects ==
    Returned("asciiToHex") =>
        LET n == call.length
            rejected == \/ n <= 0
                        \/ Len(source) < 2 * n
                        \/ \E i \in 1..(2 * n) : source[i] \notin HexDigits
        IN  IF rejected THEN decoded = None
            ELSE /\ decoded # None
                 /\ Len(decoded) = n
                 /\ \A i \in 1..n :
                       decoded[i] = 16 * DigitValue(source[2 * i - 1])
                                    + DigitValue(source[2 * i])

\* C11 happens: a non-digit among the consumed characters has been rejected,
\* and so has a string one character short.
C11_Witness ==
    /\ Returned("asciiToHex") /\ decoded = None
    /\ \/ (call.length = 1 /\ source = <<65, 71>>)
       \/ (call.length = 2 /\ source = <<65, 70, 97>>)


\* C12: the frame uhf_read hands to send_command has 9 bytes when address <
\* 0x10 (one hex digit) and 10 bytes when address >= 0x10 (two hex digits),
\* for every valid infoType and every length; it is the only frame of the call
\* and what is written to the device is that frame.
C12_ReadFrameLength ==
    (call.op = "uhf_read" /\ sent # <<>>) =>
        /\ call.infoType \in 1..4
        /\ Len(sent) = 1
        /\ Len(sent[1]) = (IF call.address < 16 THEN 9 ELSE 10)
        /\ \A i \in 1..Len(wire) : wire[i] = sent[1]

\* C12 happens: address 0x0F has given a frame of 9 bytes, or address 0x10 one
\* of 10, and the frame has been written.
C12_Witness ==
    /\ Returned("uhf_read") /\ sent # <<>> /\ wire = sent
    /\ \/ (call.address = 15 /\ Len(sent[1]) = 9 /\ sent[1][7] = 70)
       \/ (call.address = 16 /\ Len(sent[1]) = 10 /\ sent[1][7] = 49 /\ sent[1][8] = 48)

\* C13: no step of a command operation (its start, a chunk written, a chunk
\* read, its return) changes the current-device session state, whatever code
\* it returns; so a handle the operation accepted (it did not return 32) is
\* the current device's handle when the operation has returned, and the next
\* call accepts it.
C13_SessionKept ==
    /\ [][(call'.op \in CommandOps /\ pc # "done") =>
            (usb_device' = usb_device /\ session' = session)]_vars
    /\ []((pc = "done" /\ call.op \in CommandOps /\ ret # 32) =>
            ~bad_handle(usb_device, call.icdev))

\* C13 happens: an operation has failed for want of a response, and one on an
\* exception, with the handle it was given still the current device's.
C13_Witness ==
    /\ pc = "done" /\ call.op \in CommandOps
    /\ ret \in {-6, -13} /\ nreads > 0
    /\ usb_device # 0 /\ call.icdev = usb_device


\* The codes a command operation returns.
ReturnCodes == {0, 32, -2, -6, -13, 4, 160}

\* C14: every command operation ends by returning one of the codes 0, 32, -2,
\* -6, -13, 4, 160, whatever the handle, the arguments, the bytes the device
\* answers with and the transport faults; an exception raised while the frame
\* is built or the response is read or indexed is returned as -13, and no
\* operation is left without a next step before it has returned.
C14_ErrorsAreValues ==
    /\ (pc = "done" /\ call.op \in CommandOps) =>
            /\ ret \in ReturnCodes
            /\ result = Raised => ret = -13
    /\ (pc \in {"send", "recv"}) => call.op \in CommandOps \cup {"send_command"}
    /\ (pc = "send") => ENABLED DeviceWrite
    /\ (pc = "recv") => ENABLED DeviceRead

\* C14 happens: an empty chunk, a reply too short for the offsets the
\* inventory indexes, and an argument no byte can hold have each ended in a
\* returned -13.
C14_Witness ==
    /\ pc = "done" /\ ret = -13
    /\ \/ (call.op = "uhf_inventory" /\ round = 1 /\ result = <<8>>)
       \/ (call.op = "uhf_lockMemory" /\ result = Raised)
       \/ (call.op = "uhf_action" /\ call.time = 256 /\ sent = <<>>)

\* C15: every frame a command operation hands to send_command has its length
\* less one in its first byte.
C15_LengthPrefix ==
    (call.op \in CommandOps) =>
        \A i \in 1..Len(sent) : sent[i][1] = Len(sent[i]) - 1


\* C16: no operation issues a frame while a chunk from an earlier response is
\* still waiting unread, and so every chunk of a response an operation
\* validates was produced by the device after the frame it answers was sent.
C16_OwnResponse ==
    (call.op \in CommandOps) =>
        /\ pc = "send" => unread = <<>>
        /\ \A i \in 1..Len(rx) : ~rx[i].stale


\* C17: within a command operation frames sent and responses read alternate,
\* a send first: a read is under way only when the last frame has been
\* written whole with no fault, a frame is being sent only when every earlier
\* frame's response has been read or reported missing, and after a write
\* fault the operation has returned with no read attempted for that frame.
C17_Alternates ==
    (call.op \in CommandOps) =>
        /\ pc = "send" =>
              (nreads = Len(sent) - 1 /\ Len(replies) = nreads /\ fault = "none")
        /\ pc = "recv" =>
              /\ nreads = Len(sent) /\ Len(replies) = nreads - 1
              /\ fault = "none"
              /\ bytes_written >= Len(command)
              /\ Len(wire) >= Len(sent)
        /\ fault = "write_usb_error" =>
              (pc = "done" /\ nreads = Len(sent) - 1 /\ Len(replies) = nreads)
        /\ (pc = "done" /\ sent # <<>> /\ fault # "write_usb_error") =>
              (nreads = Len(sent) /\ Len(replies) = nreads)
        /\ (pc = "done" /\ sent = <<>>) => (nreads = 0 /\ wire = <<>>)

\* C17 happens: the write of the second per-tag frame of an inventory failed
\* after two complete round trips, and the call returned with two reads made.
C17_Witness ==
    /\ Returned("uhf_inventory") /\ fault = "write_usb_error"
    /\ Len(sent) = 3 /\ nreads = 2 /\ Len(replies) = 2 /\ Len(wire) = 2
    /\ ret = -6


\* C18: when the reply of a per-tag round of uhf_inventory has a second byte
\* other than 160, the call has returned: with 160 if the reply's first byte
\* is not 4, with 4 if it is (the first-byte check comes first); no per-tag
\* frame follows the one the reply answered and no data length is reported.
C18_StatusAborts ==
    (/\ call.op = "uhf_inventory" /\ round >= 1 /\ Len(replies) = round + 1
     /\ IsFrame(replies[round + 1]) /\ Len(replies[round + 1]) >= 2
     /\ At(replies[round + 1], 1) # 160) =>
        /\ pc = "done"
        /\ ret = (IF At(replies[round + 1], 0) = 4 THEN 4 ELSE 160)
        /\ Len(sent) = round + 1
        /\ Len(wire) = round + 1
        /\ dataLen = Buffer(Len(dataLen))

\* C18 happens: the second per-tag reply was [3, 2, 145, 0] and the call
\* returned 160, or it was [4, 2, 85, 0, 1] and the call returned 4.
C18_Witness ==
    /\ Returned("uhf_inventory") /\ round = 2 /\ Len(sent) = 3
    /\ \/ (result = ActionAck /\ ret = 160)
       \/ (result = CountReply(1) /\ ret = 4)


\* A per-tag reply the inventory can make a record of: status 160, a
\* byte_count that is not negative and no more than the reply has bytes.
WellFormed(r) ==
    /\ IsFrame(r) /\ Len(r) >= 6
    /\ At(r, 0) # 4 /\ At(r, 1) = 160
    /\ At(r, 0) >= 1 /\ At(r, 0) <= Len(r)
    /\ At(r, 5) >= 4 /\ 2 * At(r, 5) - 8 <= Len(r)

\* The first n characters of the upper-case hex string of r.
HexPrefix(r, n) ==
    [p \in 1..n |->
        IF p % 2 = 1 THEN UpperDigits[(r[(p + 1) \div 2] \div 16) + 1]
        ELSE UpperDigits[(r[p \div 2] % 16) + 1]]

\* The records of tags 1..i, one after the other, as a buffer with room for
\* all of them would hold them.
RECURSIVE Records(_)
Records(i) ==
    IF i <= 0 THEN <<>>
    ELSE Records(i - 1) \o <<ByteCountOf(i) + 1, At(TagOf(i), At(TagOf(i), 0) - 1)>>
                       \o HexPrefix(TagOf(i), ByteCountOf(i))

\* C19: uhf_inventory leaves len(pData) as it was, for every count, every
\* sequence of per-tag replies and every capacity; when every per-tag reply
\* is well formed (and dataLen has room for the length) the call returns 0
\* whatever the capacity (no write is attempted outside the buffer, which
\* would raise IndexError), and pData holds the records cut off at its
\* capacity, the bytes past the records untouched.
C19_NoOverflow ==
    (call.op = "uhf_inventory") =>
        /\ Len(pData) = call.capacity
        /\ DOMAIN pData = 1..call.capacity
        /\ (/\ pc = "done" /\ count >= 1 /\ round = count
            /\ Len(replies) = count + 1
            /\ \A i \in 1..count : WellFormed(TagOf(i))) =>
                /\ Len(dataLen) >= 2 => ret = 0
                /\ \A p \in 1..Len(pData) :
                      pData[p] = (IF p <= Len(Records(count))
                                  THEN Records(count)[p] ELSE 238)

\* C19 happens: two records of 6 bytes each went into a buffer of 7 bytes,
\* the second cut off after its first byte, and the call returned 0.
C19_Witness ==
    /\ Returned("uhf_inventory") /\ ret = 0 /\ count = 2
    /\ call.capacity = 7
    /\ pData = <<5, 1, 48, 57, 65, 48, 5>>
    /\ dataLen = <<12, 0>>


\* C20: uhf_read returns 0 exactly when its read_response returned a response
\* of at least 6 bytes with 'R' (82) at index 4; then the first
\* min(rlen * 4, len(pData)) bytes of pData are response[5 + i], or 0 where
\* the response has no such byte, and the rest of pData is as it was; on every
\* other return pData is as it was.
C20_ReadResult ==
    Returned("uhf_read") =>
        LET accepted == /\ nreads = 1 /\ IsFrame(result)
                        /\ Len(result) >= 6 /\ result[5] = 82
            written == IF call.rlen * 4 <= Len(pData) THEN call.rlen * 4 ELSE Len(pData)
        IN  /\ (ret = 0) <=> accepted
            /\ ret = 0 =>
                  \A p \in 1..Len(pData) :
                      pData[p] = (IF p > written THEN 238
                                  ELSE IF 5 + p <= Len(result) THEN result[5 + p]
                                  ELSE 0)
            /\ ret # 0 => pData = Buffer(Len(pData))

\* C20 happens: a read of 8 bytes into a buffer of 8 got a response with 5
\* payload bytes, and the last 3 bytes written are 0.
C20_Witness ==
    /\ Returned("uhf_read") /\ ret = 0 /\ call.rlen = 2
    /\ result = ReadReply
    /\ pData = <<17, 34, 51, 68, 85, 0, 0, 0>>


\* C21: a uhf_connect that returns a negative code (port other than 100,
\* device not found, a failure to detach the kernel driver, to set the
\* configuration or to claim the interface) leaves the current device as it
\* was: the handle the command operations accept is the same before and
\* after, and it is that of the last successful connect.
C21_FailedConnect ==
    /\ [][(pc = "idle" /\ call'.op = "uhf_connect" /\ ret' < 0) =>
            usb_device' = usb_device]_vars
    /\ [](usb_device # 0 => usb_device = session)


\* C22 as stated: whenever uhf_inventory has returned a code other than 0,
\* dataLen is as the caller passed it.
C22_AsStated ==
    (Returned("uhf_inventory") /\ ret # 0) => dataLen = Buffer(Len(dataLen))

\* C22, amended: with a dataLen of (at least) 2 bytes, whenever uhf_inventory
\* has returned a code other than 0 (32, -6, -13, 4, 160) dataLen is as the
\* caller passed it, whatever was written to tagCount and pData; dataLen is
\* written only on the two paths that return 0.  With a dataLen of one byte
\* those two paths write dataLen[0], fail on dataLen[1] and return -13.
C22_DataLenKept ==
    Returned("uhf_inventory") =>
        /\ (ret # 0 /\ Len(dataLen) >= 2) => dataLen = Buffer(Len(dataLen))
        /\ (ret = 0) => (Len(dataLen) >= 2 /\ dataLen # Buffer(Len(dataLen)))
        /\ (Len(dataLen) = 1 /\ dataLen # Buffer(1)) =>
              (ret = -13 /\ IsFrame(result) /\ Len(replies) = count + 1)

\* C22 happens: the second per-tag round ended the call with 160 after the
\* tag count and the first record had been written, and dataLen is untouched.
C22_Witness ==
    /\ Returned("uhf_inventory") /\ ret = 160 /\ round = 2
    /\ tagCount = <<2, 0>>
    /\ Len(pData) = 16 /\ At(pData, 0) = 5
    /\ dataLen = Buffer(2)


\* C23: a uhf_disconnect that returns other than 0 returns 32 (absent or
\* mismatched handle) or -13 (the release failed) and leaves the current
\* device as it was; after one that returned 0, every command operation
\* given that handle returns 32 until a later connect succeeds.
C23_Disconnect ==
    /\ [][(pc = "idle" /\ call'.op = "uhf_disconnect") =>
            /\ ret' \in {0, 32, -13}
            /\ ret' # 0 => (usb_device' = usb_device /\ session' = session)
            /\ ret' = 32 <=> bad_handle(usb_device, call'.icdev)
            /\ ret' = 0 => usb_device' = 0]_vars
    /\ []((pc = "done" /\ call.op \in CommandOps
            /\ closed # 0 /\ call.icdev = closed) => ret = 32)

=============================================================================
